---- MODULE Spec2Model ----
(***************************************************************************)
(* ColorFinder (src/src/main.rs): load a catalog of named colours from a   *)
(* CSV source, read one hex colour from the terminal, report the nearest   *)
(* catalog entry in YCbCr space.                                           *)
(*                                                                         *)
(* Strings are sequences of byte tokens (Rust's str is UTF-8 bytes): an    *)
(* ASCII character is one token, the two-byte character U+00E9 is the      *)
(* pair <<"xC3", "xA9">>.  f64 values are held as the exact rationals the  *)
(* code's arithmetic denotes, as scaled integers:                          *)
(*    y            in units of 1/(255 * 10^3)                              *)
(*    cb, cr       in units of 1/(255 * 10^6)                              *)
(*    distance_sq  in units of 1/(255 * 10^6)^2, as a base-1000 numeral    *)
(* (an exhaustive run of the f64 code over all 2^24 triples agrees with    *)
(* the exact values on every rounding and clamp decision of convert_hex).  *)
(***************************************************************************)
EXTENDS Integers, Sequences, FiniteSets, TLC

VARIABLES pc, file_ok, rows, pos, named_colors, input, read_ok, result,
          exit, trace, arg, ret

vars == <<pc, file_ok, rows, pos, named_colors, input, read_ok, result,
          exit, trace, arg, ret>>

(***************************************************************************)
(* Bounds of the model.                                                    *)
(***************************************************************************)
MaxRows == 2
MaxCatalog == 2

(***************************************************************************)
(* Byte strings.                                                           *)
(***************************************************************************)
HexDigits == <<"0", "1", "2", "3", "4", "5", "6", "7",
               "8", "9", "A", "B", "C", "D", "E", "F">>

LowerDigits == <<"0", "1", "2", "3", "4", "5", "6", "7",
                 "8", "9", "a", "b", "c", "d", "e", "f">>

\* char::to_digit(16): the value of a hexadecimal digit, -1 for any other byte
to_digit(c) ==
    IF \E i \in 1..16 : HexDigits[i] = c
    THEN (CHOOSE i \in 1..16 : HexDigits[i] = c) - 1
    ELSE IF \E i \in 1..16 : LowerDigits[i] = c
    THEN (CHOOSE i \in 1..16 : LowerDigits[i] = c) - 1
    ELSE -1

\* a UTF-8 continuation byte (10xxxxxx): never the first byte of a character
IsContinuation(c) == c = "xA9"

\* str::is_char_boundary
is_char_boundary(s, i) ==
    \/ i = 0
    \/ i = Len(s)
    \/ i < Len(s) /\ ~IsContinuation(s[i + 1])

\* &s[a..b] for 0 <= a <= b <= len; the caller has checked the boundaries
Slice(s, a, b) == SubSeq(s, a + 1, b)

IsWhite(c) == c \in {" ", "\n"}

RECURSIVE TrimStart(_)
TrimStart(s) ==
    IF s # <<>> /\ IsWhite(Head(s)) THEN TrimStart(Tail(s)) ELSE s

RECURSIVE TrimEnd(_)
TrimEnd(s) ==
    IF s # <<>> /\ IsWhite(s[Len(s)])
    THEN TrimEnd(SubSeq(s, 1, Len(s) - 1))
    ELSE s

\* str::trim
Trim(s) == TrimEnd(TrimStart(s))

(***************************************************************************)
(* hex_to_rgb                                                              *)
(***************************************************************************)
\* u8::from_str_radix(src, 16) on a two-byte slice: a lone leading '+' is
\* accepted as a sign, '-' is not (u8 is unsigned); -1 stands for Err
from_str_radix(src) ==
    LET digits == IF Len(src) > 1 /\ src[1] = "+" THEN Tail(src) ELSE src
    IN  IF src = <<>> \/ src = <<"+">> \/ src = <<"-">> THEN -1
        ELSE IF \E i \in 1..Len(digits) : to_digit(digits[i]) < 0 THEN -1
        ELSE IF Len(digits) = 1 THEN to_digit(digits[1])
        ELSE 16 * to_digit(digits[1]) + to_digit(digits[2])

hex_to_rgb(hex) ==
    IF Len(hex) # 7 \/ hex[1] # "#"
    THEN [kind |-> "Err", msg |-> "Invalid hex format"]
    ELSE IF ~(is_char_boundary(hex, 3) /\ is_char_boundary(hex, 5))
    THEN [kind |-> "Panic"]
    ELSE LET r == from_str_radix(Slice(hex, 1, 3))
             g == from_str_radix(Slice(hex, 3, 5))
             b == from_str_radix(Slice(hex, 5, 7))
         IN  IF r < 0 THEN [kind |-> "Err", msg |-> "Invalid hex R component"]
             ELSE IF g < 0
             THEN [kind |-> "Err", msg |-> "Invalid hex G component"]
             ELSE IF b < 0
             THEN [kind |-> "Err", msg |-> "Invalid hex B component"]
             ELSE [kind |-> "Ok", rgb |-> [r |-> r, g |-> g, b |-> b]]

(***************************************************************************)
(* Exact arithmetic beyond 32 bits: a natural number is the sequence of    *)
(* its base-1000 digits, least significant first, without leading zeros;   *)
(* a signed number is [neg, mag].                                          *)
(***************************************************************************)
Abs(n) == IF n < 0 THEN -n ELSE n

RECURSIVE BigOfNat(_)
BigOfNat(n) == IF n = 0 THEN <<>> ELSE <<n % 1000>> \o BigOfNat(n \div 1000)

RECURSIVE BigToNat(_)
BigToNat(a) == IF a = <<>> THEN 0 ELSE Head(a) + 1000 * BigToNat(Tail(a))

RECURSIVE BigStrip(_)
BigStrip(a) ==
    IF a # <<>> /\ a[Len(a)] = 0 THEN BigStrip(SubSeq(a, 1, Len(a) - 1)) ELSE a

RECURSIVE BigAddC(_, _, _)
BigAddC(a, b, c) ==
    IF a = <<>> /\ b = <<>> THEN (IF c = 0 THEN <<>> ELSE <<c>>)
    ELSE LET x == IF a = <<>> THEN 0 ELSE Head(a)
             y == IF b = <<>> THEN 0 ELSE Head(b)
             t == x + y + c
         IN  <<t % 1000>> \o BigAddC(IF a = <<>> THEN a ELSE Tail(a),
                                     IF b = <<>> THEN b ELSE Tail(b),
                                     t \div 1000)

BigAdd(a, b) == BigAddC(a, b, 0)

\* a - b for a >= b
RECURSIVE BigSubC(_, _, _)
BigSubC(a, b, c) ==
    IF a = <<>> THEN <<>>
    ELSE LET y == IF b = <<>> THEN 0 ELSE Head(b)
             t == Head(a) - y - c
         IN  <<t % 1000>> \o BigSubC(Tail(a),
                                     IF b = <<>> THEN b ELSE Tail(b),
                                     IF t < 0 THEN 1 ELSE 0)

BigSub(a, b) == BigStrip(BigSubC(a, b, 0))

\* a * k for a digit k
RECURSIVE BigScaleC(_, _, _)
BigScaleC(a, k, c) ==
    IF a = <<>> THEN (IF c = 0 THEN <<>> ELSE <<c>>)
    ELSE LET t == Head(a) * k + c
         IN  <<t % 1000>> \o BigScaleC(Tail(a), k, t \div 1000)

\* a * 1000^n
RECURSIVE BigShift(_, _)
BigShift(a, n) ==
    IF a = <<>> \/ n = 0 THEN a ELSE BigShift(<<0>> \o a, n - 1)

RECURSIVE BigMul(_, _)
BigMul(a, b) ==
    IF a = <<>> \/ b = <<>> THEN <<>>
    ELSE BigStrip(BigAdd(BigScaleC(b, Head(a), 0),
                         BigShift(BigMul(Tail(a), b), 1)))

RECURSIVE BigLessFrom(_, _, _)
BigLessFrom(a, b, i) ==
    IF i = 0 THEN FALSE
    ELSE IF a[i] # b[i] THEN a[i] < b[i]
    ELSE BigLessFrom(a, b, i - 1)

BigLess(a, b) ==
    IF Len(a) # Len(b) THEN Len(a) < Len(b) ELSE BigLessFrom(a, b, Len(a))

\* a signed product and a signed sum
SMul(m, n) == [neg |-> (m < 0) # (n < 0) /\ m # 0 /\ n # 0,
               mag |-> BigMul(BigOfNat(Abs(m)), BigOfNat(Abs(n)))]

SAdd(p, q) ==
    IF p.neg = q.neg THEN [neg |-> p.neg, mag |-> BigAdd(p.mag, q.mag)]
    ELSE IF BigLess(p.mag, q.mag)
    THEN [neg |-> q.neg, mag |-> BigSub(q.mag, p.mag)]
    ELSE LET d == BigSub(p.mag, q.mag)
         IN  [neg |-> p.neg /\ d # <<>>, mag |-> d]

SNeg(p) == [neg |-> ~p.neg /\ p.mag # <<>>, mag |-> p.mag]

(***************************************************************************)
(* Colour conversion.  RGB is [r, g, b] of bytes; YCbCr is [y, cb, cr] in  *)
(* the units given above.                                                  *)
(***************************************************************************)
RGBs(C) == [r : C, g : C, b : C]

\* convert_ycbcr with the chroma of blue taken from the red channel
convert_ycbcr_CbFromRed(rgb) ==
    LET y == 299 * rgb.r + 587 * rgb.g + 114 * rgb.b
    IN  [y  |-> y,
         cb |-> 564 * (1000 * rgb.r - y),
         cr |-> 713 * (1000 * rgb.r - y)]

\* y = 0.299 r/255 + 0.587 g/255 + 0.114 b/255; cb = 0.564 (b/255 - y);
\* cr = 0.713 (r/255 - y)
convert_ycbcr(rgb) ==
    LET y == 299 * rgb.r + 587 * rgb.g + 114 * rgb.b
    IN  [y  |-> y,
         cb |-> 564 * (1000 * rgb.b - y),
         cr |-> 713 * (1000 * rgb.r - y)]

\* x.clamp(0.0, 1.0) for x = p / (255 * 1000^k): the numerator after the clamp
Clamp(p, k) ==
    LET one == BigShift(BigOfNat(255), k)
    IN  IF p.neg THEN <<>>
        ELSE IF BigLess(one, p.mag) THEN one
        ELSE p.mag

\* (x * 255.0).round() as u8 for x = n / (255 * 1000^k), 0 <= x <= 1:
\* f64::round is half away from zero
RoundChannel(n, k) ==
    LET half == BigShift(BigOfNat(500), k - 1)
        t == BigAdd(n, half)
    IN  IF Len(t) <= k THEN 0 ELSE BigToNat(SubSeq(t, k + 1, Len(t)))

\* the three channels before the clamp, each [num, k] for num / (255 * 1000^k)
InverseNorm(c) ==
    [r |-> [num |-> SAdd(SMul(c.y, 1000000), SMul(1402, c.cr)), k |-> 3],
     g |-> [num |-> SAdd(SAdd(SMul(c.y, 1000000000),
                              SNeg(SMul(344136, c.cb))),
                         SNeg(SMul(714136, c.cr))), k |-> 4],
     b |-> [num |-> SAdd(SMul(c.y, 1000000), SMul(1772, c.cb)), k |-> 3]]

Channel(v) == RoundChannel(Clamp(v.num, v.k), v.k)

\* format!("{:02X}", n)
Hex02(n) == <<HexDigits[(n \div 16) + 1], HexDigits[(n % 16) + 1]>>

convert_hex(ycbcr) ==
    LET n == InverseNorm(ycbcr)
    IN  <<"#">> \o Hex02(Channel(n.r)) \o Hex02(Channel(n.g))
               \o Hex02(Channel(n.b))

(***************************************************************************)
(* Nearest colour search.                                                  *)
(***************************************************************************)
BigSq(n) == BigMul(BigOfNat(Abs(n)), BigOfNat(Abs(n)))

\* dy*dy + dcb*dcb + dcr*dcr, in units of 1/(255 * 10^6)^2
color_distance_sq(c1, c2) ==
    LET dy == c1.y - c2.y
        dcb == c1.cb - c2.cb
        dcr == c1.cr - c2.cr
    IN  BigAdd(BigAdd(BigSq(1000 * dy), BigSq(dcb)), BigSq(dcr))

\* f64::MAX, above every distance
F64_MAX == <<-1>>

\* distance_sq < min_distance_sq
FLess(d, m) == IF m = F64_MAX THEN d # F64_MAX ELSE BigLess(d, m)

\* f64::sqrt, in units of 1/(255 * 10^6): the largest n with n*n <= d,
\* found between lo and hi (lo*lo <= d < hi*hi)
RECURSIVE SqrtBetween(_, _, _)
SqrtBetween(d, lo, hi) ==
    IF hi - lo <= 1 THEN lo
    ELSE LET mid == (lo + hi) \div 2
         IN  IF BigLess(d, BigSq(mid)) THEN SqrtBetween(d, lo, mid)
             ELSE SqrtBetween(d, mid, hi)

Sqrt(d) == SqrtBetween(d, 0, 2^29)

\* the loop body with the comparison turned round: the farthest entry wins
ScanStepFarthest(best, color, target) ==
    LET distance_sq == color_distance_sq(target, color.ycbcr)
    IN  IF best.min_distance_sq = F64_MAX
           \/ BigLess(best.min_distance_sq, distance_sq)
        THEN [closest_name |-> color.name,
              min_distance_sq |-> distance_sq,
              closest_color |-> color.ycbcr]
        ELSE best

\* the loop body comparing with <= : the last of several ties wins
ScanStepLastWins(best, color, target) ==
    LET distance_sq == color_distance_sq(target, color.ycbcr)
    IN  IF best.min_distance_sq = F64_MAX
           \/ ~BigLess(best.min_distance_sq, distance_sq)
        THEN [closest_name |-> color.name,
              min_distance_sq |-> distance_sq,
              closest_color |-> color.ycbcr]
        ELSE best

\* one turn of the loop body of find_closest_color
ScanStep(best, color, target) ==
    LET distance_sq == color_distance_sq(target, color.ycbcr)
    IN  IF FLess(distance_sq, best.min_distance_sq)
        THEN [closest_name |-> color.name,
              min_distance_sq |-> distance_sq,
              closest_color |-> color.ycbcr]
        ELSE best

RECURSIVE Scan(_, _, _)
Scan(best, colors, target) ==
    IF colors = <<>> THEN best
    ELSE Scan(ScanStep(best, Head(colors), target), Tail(colors), target)

\* find_closest_color without its guard: on an empty catalog the loop does
\* not run and the initial values come back
find_closest_color_NoGuard(target_ycbcr, colors) ==
    LET best == Scan([closest_name |-> "",
                      min_distance_sq |-> F64_MAX,
                      closest_color |-> [y |-> 0, cb |-> 0, cr |-> 0]],
                     colors, target_ycbcr)
    IN  [name |-> best.closest_name,
         distance |-> IF best.min_distance_sq = F64_MAX THEN "sqrt(MAX)"
                      ELSE Sqrt(best.min_distance_sq),
         hex |-> convert_hex(best.closest_color)]

find_closest_color(target_ycbcr, colors) ==
    IF colors = <<>>
    THEN [name |-> "", distance |-> "NaN", hex |-> <<"N", "U", "L", "L">>]
    ELSE LET best == Scan([closest_name |-> "",
                           min_distance_sq |-> F64_MAX,
                           closest_color |-> [y |-> 0, cb |-> 0, cr |-> 0]],
                          colors, target_ycbcr)
         IN  [name |-> best.closest_name,
              distance |-> Sqrt(best.min_distance_sq),
              hex |-> convert_hex(best.closest_color)]

(***************************************************************************)
(* The inputs of a run: the CSV source and the line typed at the prompt.   *)
(***************************************************************************)
Names == {"Red", "Black"}

\* values of the "Hex (24 bit)" column
RowHexes ==
    { <<"#", "F", "F", "0", "0", "0", "0">>,
      <<"#", "0", "0", "0", "0", "0", "0">>,
      <<"F", "F", "0", "0", "0", "0">>,
      <<"#", "G", "G", "0", "0", "0", "0">>,
      <<"#", "1", "xC3", "xA9", "2", "3", "4">> }

\* a record the csv reader yields: Ok(CsvColorRecord) or Err
Records ==
    [kind : {"ok"}, name : Names, hex : RowHexes] \cup {[kind |-> "bad"]}

RECURSIVE SeqsUpTo(_, _)
SeqsUpTo(S, n) ==
    IF n = 0 THEN {<<>>}
    ELSE LET shorter == SeqsUpTo(S, n - 1)
         IN  shorter \cup {Append(q, x) : q \in shorter, x \in S}

\* what read_line appends to the buffer
Lines ==
    { <<"#", "F", "E", "0", "1", "0", "1", "\n">>,
      <<"#", "0", "0", "0", "0", "0", "1", "\n">>,
      <<" ", "#", "f", "f", "0", "0", "0", "0", " ", "\n">>,
      <<"1", "2", "3", "4", "5", "6", "\n">>,
      <<"#", "1", "2", "3", "4", "5", "\n">>,
      <<"#", "G", "G", "G", "G", "G", "G", "\n">>,
      <<"#", "0", "0", "0", "0", "+", "1">>,
      <<"#", "1", "xC3", "xA9", "2", "3", "4", "\n">>,
      <<>> }

NoResult == [kind |-> "none"]

(***************************************************************************)
(* main                                                                    *)
(***************************************************************************)
Init ==
    /\ pc = "start"
    /\ file_ok \in BOOLEAN
    /\ rows \in SeqsUpTo(Records, MaxRows)
    /\ (~file_ok => rows = <<>>)
    /\ pos = 0
    /\ named_colors = <<>>
    /\ input = <<>>
    /\ read_ok = TRUE
    /\ result = NoResult
    /\ exit = "running"
    /\ trace = <<>>
    /\ arg = <<>>
    /\ ret = <<>>

\* the loader's call of the parser with a '#' put before a six-character value
ParseRowNormalizing(record) ==
    hex_to_rgb(IF Len(record.hex) = 6 THEN <<"#">> \o record.hex
               ELSE record.hex)

\* the loader's call of the parser: the column value as it is
ParseRow(record) == hex_to_rgb(record.hex)

Finish(status, line) ==
    /\ pc' = "done"
    /\ exit' = status
    /\ trace' = Append(trace, line)

\* csv::ReaderBuilder::from_path succeeds
OpenOk ==
    /\ pc = "start"
    /\ file_ok
    /\ pc' = "load"
    /\ trace' = Append(trace, "Loading colors")
    /\ UNCHANGED <<file_ok, rows, pos, named_colors, input, read_ok, result,
                   exit, arg, ret>>

\* from_path fails: load returns Err, main prints it and returns Err(e)
OpenFail ==
    /\ pc = "start"
    /\ ~file_ok
    /\ pc' = "done"
    /\ exit' = "err"
    /\ trace' = trace \o <<"Loading colors", "Fatal error loading CSV data">>
    /\ UNCHANGED <<file_ok, rows, pos, named_colors, input, read_ok, result,
                   arg, ret>>

\* `result?` on a record that does not deserialize: the Vec is dropped
LoadRowFatal ==
    /\ pc = "load"
    /\ pos < Len(rows)
    /\ rows[pos + 1].kind = "bad"
    /\ named_colors' = <<>>
    /\ pos' = pos + 1
    /\ Finish("err", "Fatal error loading CSV data")
    /\ UNCHANGED <<file_ok, rows, input, read_ok, result, arg, ret>>

LoadRowPush ==
    /\ pc = "load"
    /\ pos < Len(rows)
    /\ rows[pos + 1].kind = "ok"
    /\ LET record == rows[pos + 1]
           parsed == ParseRow(record)
       IN  /\ parsed.kind = "Ok"
           /\ named_colors' =
                  Append(named_colors,
                         [name |-> record.name,
                          ycbcr |-> convert_ycbcr(parsed.rgb)])
    /\ pos' = pos + 1
    /\ UNCHANGED <<pc, file_ok, rows, input, read_ok, result, exit, trace,
                   arg, ret>>

LoadRowSkip ==
    /\ pc = "load"
    /\ pos < Len(rows)
    /\ rows[pos + 1].kind = "ok"
    /\ ParseRow(rows[pos + 1]).kind = "Err"
    /\ pos' = pos + 1
    /\ trace' = Append(trace, "Skipping color")
    /\ UNCHANGED <<pc, file_ok, rows, named_colors, input, read_ok, result,
                   exit, arg, ret>>

\* the slice in hex_to_rgb panics: the process unwinds
LoadRowPanic ==
    /\ pc = "load"
    /\ pos < Len(rows)
    /\ rows[pos + 1].kind = "ok"
    /\ ParseRow(rows[pos + 1]).kind = "Panic"
    /\ Finish("panic", "panicked")
    /\ UNCHANGED <<file_ok, rows, pos, named_colors, input, read_ok, result,
                   arg, ret>>

\* load returns Ok(named_colors); main finds the catalog empty
LoadedEmpty ==
    /\ pc = "load"
    /\ pos = Len(rows)
    /\ named_colors = <<>>
    /\ pc' = "done"
    /\ exit' = "ok"
    /\ trace' = trace \o <<"Successfully loaded", "No valid color data loaded">>
    /\ UNCHANGED <<file_ok, rows, pos, named_colors, input, read_ok, result,
                   arg, ret>>

\* main without its test for an empty catalog
LoadedUnchecked ==
    /\ pc = "load"
    /\ pos = Len(rows)
    /\ pc' = "prompt"
    /\ trace' = Append(trace, "Successfully loaded")
    /\ UNCHANGED <<file_ok, rows, pos, named_colors, input, read_ok, result,
                   exit, arg, ret>>

LoadedNonEmpty ==
    /\ pc = "load"
    /\ pos = Len(rows)
    /\ named_colors # <<>>
    /\ pc' = "prompt"
    /\ trace' = Append(trace, "Successfully loaded")
    /\ UNCHANGED <<file_ok, rows, pos, named_colors, input, read_ok, result,
                   exit, arg, ret>>

\* get_input treating a failed read as fatal
get_input_FatalOnError ==
    /\ pc = "prompt"
    /\ \E line \in Lines, ok \in BOOLEAN :
           /\ input' = Trim(line)
           /\ read_ok' = ok
           /\ pc' = IF ok THEN "query" ELSE "done"
           /\ exit' = IF ok THEN exit ELSE "err"
    /\ trace' = Append(trace, "Enter a Hex Color")
    /\ UNCHANGED <<file_ok, rows, pos, named_colors, result, arg, ret>>

\* user_input::get_input: the prompt is printed, read_line appends `line`
\* and returns Ok or Err, either way the buffer is trimmed and returned
get_input ==
    /\ pc = "prompt"
    /\ \E line \in Lines, ok \in BOOLEAN :
           /\ input' = Trim(line)
           /\ read_ok' = ok
    /\ pc' = "query"
    /\ trace' = Append(trace, "Enter a Hex Color")
    /\ UNCHANGED <<file_ok, rows, pos, named_colors, result, exit, arg, ret>>

QuerySearch ==
    /\ pc = "query"
    /\ LET parsed == hex_to_rgb(input)
       IN  /\ parsed.kind = "Ok"
           /\ result' = [kind |-> "some"] @@
                  find_closest_color(convert_ycbcr(parsed.rgb), named_colors)
    /\ pc' = "done"
    /\ exit' = "ok"
    /\ trace' = trace \o <<"Processing time", "Closest Named Color",
                           "Color Difference">>
    /\ UNCHANGED <<file_ok, rows, pos, named_colors, input, read_ok, arg, ret>>

QueryError ==
    /\ pc = "query"
    /\ hex_to_rgb(input).kind = "Err"
    /\ Finish("ok", "Error processing input")
    /\ UNCHANGED <<file_ok, rows, pos, named_colors, input, read_ok, result,
                   arg, ret>>

QueryPanic ==
    /\ pc = "query"
    /\ hex_to_rgb(input).kind = "Panic"
    /\ Finish("panic", "panicked")
    /\ UNCHANGED <<file_ok, rows, pos, named_colors, input, read_ok, result,
                   arg, ret>>

Next ==
    \/ OpenOk
    \/ OpenFail
    \/ LoadRowFatal
    \/ LoadRowPush
    \/ LoadRowSkip
    \/ LoadRowPanic
    \/ LoadedEmpty
    \/ LoadedNonEmpty
    \/ get_input
    \/ QuerySearch
    \/ QueryError
    \/ QueryPanic

Spec == Init /\ [][Next]_vars

(***************************************************************************)
(* The pure functions on their own: an argument is drawn, the function is  *)
(* called, its value is kept in ret.                                       *)
(***************************************************************************)
Idle ==
    /\ file_ok = TRUE
    /\ rows = <<>>
    /\ pos = 0
    /\ named_colors = <<>>
    /\ input = <<>>
    /\ read_ok = TRUE
    /\ result = NoResult
    /\ exit = "running"
    /\ trace = <<>>

\* strings around the '#RRGGBB' shape: a prefix, three channel pairs (some
\* short, some signed, some not hexadecimal, some not ASCII) and a suffix
Prefixes == {<<>>, <<"#">>, <<"0">>}

Pairs ==
    { <<"0", "0">>, <<"F", "F">>, <<"f", "f">>, <<"a", "B">>, <<"1", "0">>,
      <<"+", "F">>, <<"-", "1">>, <<"G", "0">>, <<"0", " ">>, <<"1">>,
      <<"xC3", "xA9">> }

Suffixes == {<<>>, <<"0">>}

HexInputs ==
    {p \o x \o y \o z \o q :
        p \in Prefixes, x \in Pairs, y \in Pairs, z \in Pairs, q \in Suffixes}

InitHex ==
    /\ Idle
    /\ pc = "call"
    /\ arg \in HexInputs
    /\ ret = NoResult

CallHex ==
    /\ pc = "call"
    /\ ret' = hex_to_rgb(arg)
    /\ pc' = "ret"
    /\ UNCHANGED <<file_ok, rows, pos, named_colors, input, read_ok, result,
                   exit, trace, arg>>

SpecHex == InitHex /\ [][CallHex]_vars

\* colours of catalog entries and queries
Palette ==
    { [r |-> 255, g |-> 0, b |-> 0], [r |-> 0, g |-> 0, b |-> 0],
      [r |-> 254, g |-> 1, b |-> 1], [r |-> 0, g |-> 0, b |-> 1],
      [r |-> 0, g |-> 255, b |-> 0], [r |-> 128, g |-> 128, b |-> 128] }

NamedColors == [name : Names, ycbcr : {convert_ycbcr(c) : c \in Palette}]

InitSearch ==
    /\ Idle
    /\ pc = "call"
    /\ arg \in [target : {convert_ycbcr(c) : c \in Palette},
                colors : SeqsUpTo(NamedColors, MaxCatalog)]
    /\ ret = NoResult

CallSearch ==
    /\ pc = "call"
    /\ ret' = find_closest_color(arg.target, arg.colors)
    /\ pc' = "ret"
    /\ UNCHANGED <<file_ok, rows, pos, named_colors, input, read_ok, result,
                   exit, trace, arg>>

SpecSearch == InitSearch /\ [][CallSearch]_vars

\* channel values at both ends and in the middle of the byte range
Channels == {0, 1, 2, 127, 128, 253, 254, 255}

InitConv ==
    /\ Idle
    /\ pc = "call"
    /\ arg \in RGBs(Channels)
    /\ ret = NoResult

\* RGB -> YCbCr -> hex
CallRoundTrip ==
    /\ pc = "call"
    /\ ret' = [ycbcr |-> convert_ycbcr(arg),
               hex |-> convert_hex(convert_ycbcr(arg))]
    /\ pc' = "ret"
    /\ UNCHANGED <<file_ok, rows, pos, named_colors, input, read_ok, result,
                   exit, trace, arg>>

SpecConv == InitConv /\ [][CallRoundTrip]_vars

(***************************************************************************)
(* Claims about the pure functions.                                        *)
(***************************************************************************)
Called == pc = "ret"

\* the squared distance of every entry to the query
Distances ==
    [i \in 1..Len(arg.colors) |->
        color_distance_sq(arg.target, arg.colors[i].ycbcr)]

\* entry i is nearest: no entry is strictly nearer
IsNearest(d, i) == \A j \in DOMAIN d : ~BigLess(d[j], d[i])

\* n is the square root of d, to the resolution of the distance unit
IsSqrtOf(n, d) ==
    /\ n >= 0
    /\ ~BigLess(d, BigSq(n))
    /\ BigLess(d, BigSq(n + 1))

\* C1: for a non-empty catalog find_closest_color returns the name of an
\* entry whose squared distance to the query is less than or equal to that
\* of every other entry, and the distance returned is the square root of
\* that entry's squared distance.
C1_NearestIsMinimal ==
    (Called /\ arg.colors # <<>>) =>
        LET d == Distances
        IN  \E i \in 1..Len(arg.colors) :
                /\ IsNearest(d, i)
                /\ ret.name = arg.colors[i].name
                /\ IsSqrtOf(ret.distance, d[i])

\* the spec's example: catalog Red #FF0000, Black #000000, query #000001:
\* the second entry wins at a small positive distance
C1_Witness ==
    /\ Called
    /\ arg.target = convert_ycbcr([r |-> 0, g |-> 0, b |-> 1])
    /\ arg.colors =
           << [name |-> "Red",
               ycbcr |-> convert_ycbcr([r |-> 255, g |-> 0, b |-> 0])],
              [name |-> "Black",
               ycbcr |-> convert_ycbcr([r |-> 0, g |-> 0, b |-> 0])] >>
    /\ ret.name = "Black"
    /\ ret.distance > 0
    /\ ret.distance < 1000000

\* C2: among several entries at the same minimal distance the one with the
\* lowest index is returned; with two entries of identical colour and
\* different names, the earlier name.
C2_FirstAmongTies ==
    (Called /\ arg.colors # <<>>) =>
        LET d == Distances
            first == CHOOSE i \in 1..Len(arg.colors) :
                         /\ IsNearest(d, i)
                         /\ \A j \in 1..(i - 1) : ~IsNearest(d, j)
        IN  /\ ret.name = arg.colors[first].name
            /\ ret.hex = convert_hex(arg.colors[first].ycbcr)

\* two entries of the same colour under different names, nearer than a third
C2_Witness ==
    /\ Called
    /\ Len(arg.colors) >= 2
    /\ arg.colors[1].ycbcr = arg.colors[2].ycbcr
    /\ arg.colors[1].name # arg.colors[2].name
    /\ arg.target # arg.colors[1].ycbcr
    /\ ret.name = arg.colors[1].name

\* C3 as claimed: called with an empty catalog the search does not return
\* a result carrying the sentinel NaN distance.
C3_EmptyCatalogFails ==
    (Called /\ arg.colors = <<>>) => ret.distance # "NaN"

\* C3 as the code has it: called with an empty catalog the search returns
\* the sentinel result: an empty name, a NaN distance and the text NULL.
C3_EmptyCatalogSentinel ==
    (Called /\ arg.colors = <<>>) =>
        ret = [name |-> "", distance |-> "NaN", hex |-> <<"N", "U", "L", "L">>]

C3_Witness ==
    /\ Called
    /\ arg.colors = <<>>
    /\ ret.name = ""
    /\ ret.hex = <<"N", "U", "L", "L">>

IsHexDigit(c) ==
    c \in {"0", "1", "2", "3", "4", "5", "6", "7", "8", "9",
           "a", "b", "c", "d", "e", "f", "A", "B", "C", "D", "E", "F"}

\* '#' followed by exactly six hexadecimal digits
WellFormed(s) ==
    /\ Len(s) = 7
    /\ s[1] = "#"
    /\ \A i \in 2..7 : IsHexDigit(s[i])

\* the value of a pair of hexadecimal digits, whatever their case
UpperOf(c) ==
    IF \E i \in 1..16 : LowerDigits[i] = c
    THEN HexDigits[CHOOSE i \in 1..16 : LowerDigits[i] = c]
    ELSE c

PairValue(s, i) ==
    CHOOSE n \in 0..255 : Hex02(n) = <<UpperOf(s[i]), UpperOf(s[i + 1])>>

\* C4: hex_to_rgb returns Ok exactly for the strings of 7 characters that
\* begin with '#' and continue with six hexadecimal digits, and then the
\* bytes RR, GG, BB read in that order whatever the letter case; every
\* other string is rejected.
C4_OkIffWellFormed ==
    Called =>
        /\ (ret.kind = "Ok") <=> WellFormed(arg)
        /\ ret.kind = "Ok" =>
               ret.rgb = [r |-> PairValue(arg, 2), g |-> PairValue(arg, 4),
                          b |-> PairValue(arg, 6)]

\* C8: an RGB triple converted to YCbCr and back to hex keeps each channel
\* within 1 of the original, and the inverse transform stays within [0,1]
\* before the clamp, so the clamp changes nothing.
InUnitRange(v) == Clamp(v.num, v.k) = v.num.mag /\ ~v.num.neg

C8_RoundTrip ==
    Called =>
        LET back == hex_to_rgb(ret.hex)
            n == InverseNorm(ret.ycbcr)
        IN  /\ back.kind = "Ok"
            /\ Abs(back.rgb.r - arg.r) <= 1
            /\ Abs(back.rgb.g - arg.g) <= 1
            /\ Abs(back.rgb.b - arg.b) <= 1
            /\ InUnitRange(n.r)
            /\ InUnitRange(n.g)
            /\ InUnitRange(n.b)

\* a triple with all three channels different and none at an end of the range
C8_Witness ==
    /\ Called
    /\ arg = [r |-> 254, g |-> 1, b |-> 127]
    /\ ret.hex = <<"#", "F", "E", "0", "1", "7", "F">>

(***************************************************************************)
(* Claims about a run of main.                                             *)
(***************************************************************************)
Printed(line) == \E i \in 1..Len(trace) : trace[i] = line

Count(line) == Cardinality({i \in 1..Len(trace) : trace[i] = line})

LoadSucceeded == Printed("Successfully loaded")

LoadFailed == Printed("Fatal error loading CSV data")

Prompted == Printed("Enter a Hex Color")

Searched == result # NoResult

\* C5: a malformed hex string never makes hex_to_rgb panic, as a catalog
\* value or as the query; a malformed query is reported and the run ends
\* normally without a search.
C5_MalformedNeverPanics ==
    /\ exit # "panic"
    /\ (pc = "done" /\ Prompted /\ ~WellFormed(input)) =>
           /\ exit = "ok"
           /\ ~Searched
           /\ Printed("Error processing input")

\* the rows whose hex value parses, converted, in source order
RECURSIVE ParsedRows(_)
ParsedRows(rs) ==
    IF rs = <<>> THEN <<>>
    ELSE LET record == Head(rs)
             parsed == IF record.kind = "ok" THEN hex_to_rgb(record.hex)
                       ELSE [kind |-> "bad"]
         IN  (IF parsed.kind = "Ok"
              THEN <<[name |-> record.name,
                      ycbcr |-> convert_ycbcr(parsed.rgb)]>>
              ELSE <<>>) \o ParsedRows(Tail(rs))

\* C6: once the load is over, and unless the CSV reader itself failed, the
\* catalog holds exactly the rows whose hex value parsed, in source order,
\* each as the YCbCr conversion of its RGB: a row with a malformed hex value
\* does not enter it and does not keep the rows after it from being loaded.
C6_CatalogIsParsedRows ==
    (pc \notin {"start", "load"} /\ ~LoadFailed) =>
        named_colors = ParsedRows(rows)

\* six hexadecimal digits and no '#'
IsSixHex(s) == Len(s) = 6 /\ \A i \in 1..6 : IsHexDigit(s[i])

\* the rows read so far whose hex value is six digits without '#'
NoHashRowsSeen ==
    {i \in 1..pos : rows[i].kind = "ok" /\ IsSixHex(rows[i].hex)}

\* the rows read so far whose hex value begins with '#'
HashRowsSeen ==
    {i \in 1..pos : rows[i].kind = "ok" /\ rows[i].hex # <<>>
                                       /\ rows[i].hex[1] = "#"}

\* C7 as claimed: a row whose hex column holds six hexadecimal digits
\* without '#' enters the catalog.
C7_NoHashRowEnters ==
    LoadSucceeded =>
        \A i \in NoHashRowsSeen :
            \E k \in 1..Len(named_colors) :
                named_colors[k] =
                    [name |-> rows[i].name,
                     ycbcr |-> convert_ycbcr(
                                   hex_to_rgb(<<"#">> \o rows[i].hex).rgb)]

\* C7 as the code has it: such a row reaches the parser as it is, is skipped
\* with a diagnostic and never enters the catalog: the catalog holds no more
\* entries than rows with a leading '#' were read.
C7_NoHashRowSkipped ==
    (pc = "load" \/ LoadSucceeded) =>
        /\ Len(named_colors) <= Cardinality(HashRowsSeen)
        /\ Count("Skipping color") >= Cardinality(NoHashRowsSeen)

\* a row without '#' before a well-formed row: only the second is loaded
C7_Witness ==
    /\ pc = "prompt"
    /\ Len(rows) = 2
    /\ rows[1].kind = "ok" /\ IsSixHex(rows[1].hex)
    /\ rows[2].kind = "ok" /\ WellFormed(rows[2].hex)
    /\ named_colors = <<[name |-> rows[2].name,
                         ycbcr |-> convert_ycbcr(hex_to_rgb(rows[2].hex).rgb)]>>
    /\ Printed("Skipping color")

\* C9 as claimed: a failed load or a failed prompt read ends the run with
\* an error outcome and without a search.
C9_BlockingFailureIsFatal ==
    (pc = "done" /\ (LoadFailed \/ ~read_ok)) =>
        /\ exit \in {"err", "panic"}
        /\ ~Searched

\* C9 as the code has it: a failed load ends the run with an error, before
\* the prompt, with the catalog dropped and no search; a failed prompt read
\* is ignored, and the text read so far is handled like any other query.
C9_LoadFatalReadIgnored ==
    pc = "done" =>
        /\ (~file_ok \/ \E i \in 1..Len(rows) :
                            /\ rows[i].kind = "bad"
                            /\ \A j \in 1..(i - 1) :
                                   rows[j].kind = "ok"
                                   /\ hex_to_rgb(rows[j].hex).kind # "Panic")
               => /\ LoadFailed
                  /\ exit = "err"
                  /\ named_colors = <<>>
                  /\ ~Prompted
                  /\ ~Searched
        /\ (Prompted /\ ~read_ok) =>
               LET parsed == hex_to_rgb(input)
               IN  /\ parsed.kind = "Ok" =>
                          exit = "ok" /\ Searched
                   /\ parsed.kind = "Err" =>
                          /\ exit = "ok"
                          /\ ~Searched
                          /\ Printed("Error processing input")
                   /\ parsed.kind = "Panic" => exit = "panic"

\* the read fails after a whole colour was read: the search runs all the same
C9_Witness ==
    /\ pc = "done"
    /\ ~read_ok
    /\ exit = "ok"
    /\ Searched
    /\ result.name \in Names

C10_Order ==
    /\ pc = "start" <=> trace = <<>>
    /\ trace # <<>> => trace[1] = "Loading colors"
    /\ Count("Loading colors") <= 1
    /\ Count("Successfully loaded") + Count("Fatal error loading CSV data") <= 1
    /\ Count("Enter a Hex Color") <= 1
    /\ Count("Closest Named Color") <= 1
    /\ Prompted =>
           /\ named_colors # <<>>
           /\ \E i, j \in 1..Len(trace) :
                  /\ i < j
                  /\ trace[i] = "Successfully loaded"
                  /\ trace[j] = "Enter a Hex Color"
    /\ Searched <=> Printed("Closest Named Color")
    /\ Searched =>
           /\ named_colors # <<>>
           /\ \E k \in 1..Len(named_colors) :
                  result.name = named_colors[k].name
           /\ \E i, j \in 1..Len(trace) :
                  /\ i < j
                  /\ trace[i] = "Enter a Hex Color"
                  /\ trace[j] = "Closest Named Color"
    /\ (LoadSucceeded /\ named_colors = <<>>) =>
           /\ pc = "done"
           /\ exit = "ok"
           /\ Printed("No valid color data loaded")
           /\ ~Prompted
           /\ ~Searched

C10_Step ==
    /\ pc \notin {"start", "load"} => named_colors' = named_colors
    /\ Searched => result' = result
    /\ Prompted => input' = input

\* C10: the load happens once and first; the prompt is read at most once
\* and only after a load that produced a non-empty catalog; the search runs
\* at most once, after the prompt, on a non-empty catalog that has not
\* changed since the load; an empty catalog is reported and the run ends
\* normally without prompt or search.
C10_FixedOrder == []C10_Order /\ [][C10_Step]_vars

\* a whole run: load with one row skipped, prompt, search, report
C10_Witness ==
    /\ pc = "done"
    /\ exit = "ok"
    /\ trace = <<"Loading colors", "Skipping color", "Successfully loaded",
                 "Enter a Hex Color", "Processing time",
                 "Closest Named Color", "Color Difference">>
    /\ Searched

====
